---- MODULE Spec2Model ----
(***************************************************************************)
(* Network topology discovery of yunohost (src/utils/network.py):          *)
(* the public-IP resolver with its on-disk cache and mirror vote, the      *)
(* default-route check, the address extractor, the gateway lookup and the  *)
(* interface inventory; and the resolver of src/yunohost/utils/network.py. *)
(*                                                                         *)
(* Text is modelled as a sequence of one-character strings, so that strip, *)
(* startswith, split and the regular expressions are computed on the       *)
(* characters, as the code does.                                           *)
(***************************************************************************)
EXTENDS Integers, Sequences, FiniteSets, TLC

VARIABLES
    now,        \* time.time(), in seconds
    cache,      \* /var/cache/yunohost/ipv{4,6}: [exists, content, ctime] per protocol
    frame,      \* one get_public_ip call per caller: its position and its locals
    calls,      \* number of get_public_ip calls started so far
    prev,       \* the last call that ended (history)
    entryFrom,  \* per protocol, how the cache entry came to be (history)
    produced,   \* per protocol, the results of the fresh resolutions (history, SpecRace)
    netlog,     \* per protocol, what the network answered (history, SpecRace)
    route_table,     \* SpecRoute: the lines of a routing table
    route_protocol,  \* SpecRoute: the protocol asked about
    route_line,      \* SpecRoute: the line any() looks at next
    available,       \* SpecRoute: "unknown", or the answer of the check
    string,          \* SpecExtract: the text _extract_inet searches
    skip_netmask,    \* SpecExtract: its flag
    skip_loopback,   \* SpecExtract: its flag
    scan,            \* SpecExtract: the loop it is in, "ipv4", "ipv6" or "done"
    pos,             \* SpecExtract: where finditer looks for the next match
    result,          \* SpecExtract: the dict it returns
    gw_output,       \* SpecGateway: what `ip route show` printed
    gw_pc,           \* SpecGateway: where get_gateway is
    gw_m,            \* SpecGateway: m.group(1), or None without a match
    gw_addr,         \* SpecGateway: the dict _extract_inet gave
    gw_result,       \* SpecGateway: what get_gateway returns
    if_blocks,       \* SpecInterfaces: the devices `ip addr show` lists (history)
    if_output,       \* SpecInterfaces: what it printed
    if_pieces,       \* SpecInterfaces: the pieces re.split gave
    if_pc,           \* SpecInterfaces: where get_network_interfaces is
    devices_raw,     \* SpecInterfaces: name -> text of the block
    devices          \* SpecInterfaces: name -> addresses

resolverVars == <<now, cache, frame, calls, prev, entryFrom, produced, netlog>>

routeVars == <<route_table, route_protocol, route_line, available>>

extractVars == <<string, skip_netmask, skip_loopback, scan, pos, result>>

gatewayVars == <<gw_output, gw_pc, gw_m, gw_addr, gw_result>>

interfaceVars == <<if_blocks, if_output, if_pieces, if_pc, devices_raw, devices>>

vars == <<resolverVars, routeVars, extractVars, gatewayVars, interfaceVars>>

-----------------------------------------------------------------------------
(* Bounds of the model *)

MaxNow == 240          \* the clock stops advancing here
MaxCalls == 2          \* calls started in one behaviour
MaxMirrors == 4        \* configured mirror URLs, so that a fourth exists
MaxRouteLines == 2     \* lines of a routing table in SpecRoute
MaxTokens == 4         \* pieces a text of SpecExtract is made of
RaceMirrors == 2       \* configured mirror URLs when two callers race
MaxGatewayTokens == 4  \* pieces a dump of SpecGateway is made of
MaxDevices == 2        \* devices a dump of SpecInterfaces lists

(* Program constants *)

cache_duration == 120
MirrorLimit == 3

-----------------------------------------------------------------------------
(* Text *)

None == <<"None">>     \* Python's None: no text (its one element is no character)

IP_A == <<"1",".","2",".","3",".","4">>
IP_A_NL == <<"1",".","2",".","3",".","4","\n">>
IP_B == <<"5",".","6",".","7",".","8">>
BLANK == <<" ","\n">>
EMPTY == <<>>

R_default == <<"d","e","f","a","u","l","t"," ","v","i","a"," ","1","0",".","0",".","0",".","1"," ","d","e","v"," ","e","t","h","0">>
R_lan == <<"1","0",".","0",".","0",".","0","/","2","4"," ","d","e","v"," ","e","t","h","0">>
R_cube == <<"2","0","0","0",":",":","/","3"," ","d","e","v"," ","t","u","n","0">>
R_v4in6 == <<"0",".","0",".","0",".","0","/","1"," ","v","i","a"," ","i","n","e","t","6"," ","f","e","8","0",":",":","1"," ","d","e","v"," ","t","u","n","0">>
R_v6lan == <<"f","e","8","0",":",":","/","6","4"," ","d","e","v"," ","e","t","h","0">>
R_indent == <<" ","d","e","f","a","u","l","t"," ","d","e","v"," ","e","t","h","0">>
R_defaults == <<"d","e","f","a","u","l","t","s">>
R_after == <<"l","o","c","a","l"," ",":",":","1"," ","d","e","v"," ","l","o"," ","m","e","t","r","i","c"," ","0","/","3">>

IsSpace(c) == c \in {" ", "\n", "\t", "\r"}

RECURSIVE lstrip(_)
lstrip(s) == IF s # <<>> /\ IsSpace(Head(s)) THEN lstrip(Tail(s)) ELSE s

RECURSIVE rstrip(_)
rstrip(s) == IF s # <<>> /\ IsSpace(s[Len(s)]) THEN rstrip(SubSeq(s, 1, Len(s) - 1)) ELSE s

strip(s) == rstrip(lstrip(s))

startswith(s, prefix) == Len(s) >= Len(prefix) /\ SubSeq(s, 1, Len(prefix)) = prefix

Contains(s, c) == \E k \in 1..Len(s) : s[k] = c

\* s.split()[0]: the first whitespace-delimited field of a text that has one
RECURSIVE TakeField(_)
TakeField(s) == IF s = <<>> \/ IsSpace(Head(s)) THEN <<>> ELSE <<Head(s)>> \o TakeField(Tail(s))

FirstField(s) == TakeField(lstrip(s))

Abs(x) == IF x < 0 THEN -x ELSE x

Min(a, b) == IF a < b THEN a ELSE b

-----------------------------------------------------------------------------
(* The default-route check of get_public_ip_from_remote_server *)

\* re.match(r".*/[0-3]$", field), for a field without whitespace
EndsInShortPrefix(field) ==
    /\ Len(field) >= 2
    /\ field[Len(field) - 1] = "/"
    /\ field[Len(field)] \in {"0", "1", "2", "3"}

is_default_route(r) ==
    \/ startswith(r, <<"d","e","f","a","u","l","t">>)
    \/ (Contains(r, ":") /\ EndsInShortPrefix(FirstField(r)))

\* any(is_default_route(r) for r in routes)
AnyDefaultRoute(routes) == \E k \in 1..Len(routes) : is_default_route(routes[k])

-----------------------------------------------------------------------------
(* The vote of get_public_ips *)

\* ip_count is a dict in insertion order: a sequence of <<ip, count>>
HasKey(ip_count, ip) == \E k \in 1..Len(ip_count) : ip_count[k][1] = ip

CountOf(ip_count, ip) ==
    IF HasKey(ip_count, ip)
    THEN (CHOOSE e \in {ip_count[k] : k \in 1..Len(ip_count)} : e[1] = ip)[2]
    ELSE 0

CountVote(ip_count, ip) ==
    IF HasKey(ip_count, ip)
    THEN [k \in 1..Len(ip_count) |->
            IF ip_count[k][1] = ip THEN <<ip, ip_count[k][2] + 1>> ELSE ip_count[k]]
    ELSE Append(ip_count, <<ip, 1>>)

\* (a sort that is not stable: equal counts change places)
RECURSIVE InsertSorted_Unstable(_, _)
InsertSorted_Unstable(sorted, e) ==
    IF sorted = <<>> THEN <<e>>
    ELSE IF Head(sorted)[2] < e[2]
         THEN <<Head(sorted)>> \o InsertSorted_Unstable(Tail(sorted), e)
         ELSE <<e>> \o sorted

\* list.sort(key=lambda x: x[1]): stable, ascending in the count
RECURSIVE InsertSorted(_, _)
InsertSorted(sorted, e) ==
    IF sorted = <<>> THEN <<e>>
    ELSE IF Head(sorted)[2] <= e[2]
         THEN <<Head(sorted)>> \o InsertSorted(Tail(sorted), e)
         ELSE <<e>> \o sorted

RECURSIVE SortByCount(_)
SortByCount(pairs) ==
    IF pairs = <<>> THEN <<>>
    ELSE InsertSorted(SortByCount(SubSeq(pairs, 1, Len(pairs) - 1)), pairs[Len(pairs)])

ip_list(ip_count) == [k \in 1..Len(ip_count) |-> SortByCount(ip_count)[k][1]]

\* ip_url_yunohost_tab[:3]
MirrorsToQuery(n) == Min(MirrorLimit, n)

-----------------------------------------------------------------------------
(* The regular expressions of _extract_inet.  A match is given by the position
   of its first character and the position after its last one; 0 is no match. *)

IsDigit(c) == c \in {"0","1","2","3","4","5","6","7","8","9"}

IsHex(c) == IsDigit(c) \/ c \in {"a","b","c","d","e","f","A","B","C","D","E","F"}

At(s, k) == IF k >= 1 /\ k <= Len(s) THEN s[k] ELSE "<end>"

\* (25[0-5]|2[0-4]\d|[0-1]?\d?\d) matches n characters at k
Octet(s, k, n) ==
    CASE n = 3 ->
           \/ At(s, k) = "2" /\ At(s, k + 1) = "5" /\ At(s, k + 2) \in {"0","1","2","3","4","5"}
           \/ At(s, k) = "2" /\ At(s, k + 1) \in {"0","1","2","3","4"} /\ IsDigit(At(s, k + 2))
           \/ At(s, k) \in {"0","1"} /\ IsDigit(At(s, k + 1)) /\ IsDigit(At(s, k + 2))
      [] n = 2 -> IsDigit(At(s, k)) /\ IsDigit(At(s, k + 1))
      [] n = 1 -> IsDigit(At(s, k))
      [] OTHER -> FALSE

\* (the prefix made optional, "(/[0-9]{1,2})?)")
Ip4Suffix_Optional(s, k, netmask) ==
    IF netmask /\ At(s, k) = "/" /\ IsDigit(At(s, k + 1))
    THEN (IF IsDigit(At(s, k + 2)) THEN k + 3 ELSE k + 2)
    ELSE k

\* what follows the fourth octet, at k: "/[0-9]{1,2})" if not skip_netmask else ")"
Ip4Suffix(s, k, netmask) ==
    IF ~netmask THEN k
    ELSE IF At(s, k) = "/" /\ IsDigit(At(s, k + 1))
         THEN (IF IsDigit(At(s, k + 2)) THEN k + 3 ELSE k + 2)
         ELSE 0

\* the rest of ip4_pattern at k with `left` octets to come; the engine tries the
\* longer octet first and backtracks to the shorter
RECURSIVE Ip4Octets(_, _, _, _)
Ip4After(s, k, left, netmask) ==
    IF left = 0 THEN Ip4Suffix(s, k, netmask)
    ELSE IF At(s, k) = "." THEN Ip4Octets(s, k + 1, left, netmask)
    ELSE 0

Ip4Try(s, k, n, left, netmask) ==
    IF Octet(s, k, n) THEN Ip4After(s, k + n, left - 1, netmask) ELSE 0

Ip4Octets(s, k, left, netmask) ==
    IF Ip4Try(s, k, 3, left, netmask) # 0 THEN Ip4Try(s, k, 3, left, netmask)
    ELSE IF Ip4Try(s, k, 2, left, netmask) # 0 THEN Ip4Try(s, k, 2, left, netmask)
    ELSE Ip4Try(s, k, 1, left, netmask)

\* ip4_pattern matched at k
Ip4At(s, k, netmask) == Ip4Octets(s, k, 4, netmask)

\* s[a..b] is (?:[0-9A-Fa-f]{1,4}(?::[0-9A-Fa-f]{1,4})*)? : nothing, or groups
\* of one to four hex digits with one colon between them
HexGroups(s, a, b) ==
    \/ b < a
    \/ /\ \A k \in a..b : IsHex(s[k]) \/ s[k] = ":"
       /\ IsHex(s[a]) /\ IsHex(s[b])
       /\ \A k \in a..(b - 1) : ~(s[k] = ":" /\ s[k + 1] = ":")
       /\ \A k \in a..(b - 4) : \E j \in k..(k + 4) : s[j] = ":"

\* the first position from k on that holds neither a hex digit nor a colon
RECURSIVE GroupsEnd(_, _)
GroupsEnd(s, k) ==
    IF k <= Len(s) /\ (IsHex(s[k]) \/ s[k] = ":") THEN GroupsEnd(s, k + 1) ELSE k

\* the greedy end of up to `left` more hex digits at k
RECURSIVE HexRun(_, _, _)
HexRun(s, k, left) ==
    IF left > 0 /\ IsHex(At(s, k)) THEN HexRun(s, k + 1, left - 1) ELSE k

\* the greedy end of (?::[0-9A-Fa-f]{1,4})* at k
RECURSIVE MoreGroups(_, _)
MoreGroups(s, k) ==
    IF At(s, k) = ":" /\ IsHex(At(s, k + 1)) THEN MoreGroups(s, HexRun(s, k + 1, 4)) ELSE k

\* the greedy end of the groups after "::", at k
TailEnd(s, k) == IF IsHex(At(s, k)) THEN MoreGroups(s, HexRun(s, k, 4)) ELSE k

\* the first "::" from k on
RECURSIVE DoubleColon(_, _)
DoubleColon(s, k) ==
    IF k >= Len(s) THEN 0
    ELSE IF s[k] = ":" /\ s[k + 1] = ":" THEN k
    ELSE DoubleColon(s, k + 1)

\* what follows "::" at k: the groups, and "/[0-9]{1,3})" if not skip_netmask else
\* ")"; before a netmask the groups must end at the slash
Ip6Tail(s, k, netmask) ==
    IF ~netmask THEN TailEnd(s, k)
    ELSE LET slash == GroupsEnd(s, k) IN
         IF At(s, slash) = "/" /\ IsDigit(At(s, slash + 1)) /\ HexGroups(s, k, slash - 1)
         THEN (IF ~IsDigit(At(s, slash + 2)) THEN slash + 2
               ELSE IF ~IsDigit(At(s, slash + 3)) THEN slash + 3
               ELSE slash + 4)
         ELSE 0

\* ip6_pattern matched at k: the groups before "::" end at the first "::"
Ip6At(s, k, netmask) ==
    LET colons == DoubleColon(s, k) IN
    IF colons # 0 /\ HexGroups(s, k, colons - 1) THEN Ip6Tail(s, colons + 2, netmask) ELSE 0

\* re.finditer: the next match from k on, <<first, after>>, or <<0, 0>>
RECURSIVE NextIp4(_, _, _)
NextIp4(s, k, netmask) ==
    IF k > Len(s) THEN <<0, 0>>
    ELSE IF Ip4At(s, k, netmask) # 0 THEN <<k, Ip4At(s, k, netmask)>>
    ELSE NextIp4(s, k + 1, netmask)

RECURSIVE NextIp6(_, _, _)
NextIp6(s, k, netmask) ==
    IF k > Len(s) THEN <<0, 0>>
    ELSE IF Ip6At(s, k, netmask) # 0 THEN <<k, Ip6At(s, k, netmask)>>
    ELSE NextIp6(s, k + 1, netmask)

\* m.group(1)
Group1(s, m) == SubSeq(s, m[1], m[2] - 1)

\* skip_loopback and addr.startswith("127.")
SkipIp4(addr, loopback) == loopback /\ startswith(addr, <<"1","2","7",".">>)

\* skip_loopback and addr == "::1"
SkipIp6(addr, loopback) == loopback /\ addr = <<":",":","1">>

\* the first loop of _extract_inet from k on: the address, or None
RECURSIVE FirstIp4(_, _, _, _)
FirstIp4(s, k, netmask, loopback) ==
    LET m == NextIp4(s, k, netmask) IN
    IF m[1] = 0 THEN None
    ELSE IF SkipIp4(Group1(s, m), loopback) THEN FirstIp4(s, m[2], netmask, loopback)
    ELSE Group1(s, m)

\* the second loop
RECURSIVE FirstIp6(_, _, _, _)
FirstIp6(s, k, netmask, loopback) ==
    LET m == NextIp6(s, k, netmask) IN
    IF m[1] = 0 THEN None
    ELSE IF SkipIp6(Group1(s, m), loopback) THEN FirstIp6(s, m[2], netmask, loopback)
    ELSE Group1(s, m)

\* _extract_inet(string, skip_netmask, skip_loopback) as a whole
extract_inet(s, skip_nm, skip_lo) ==
    LET a4 == FirstIp4(s, 1, ~skip_nm, skip_lo)
        a6 == FirstIp6(s, 1, ~skip_nm, skip_lo)
    IN  [k \in (IF a4 = None THEN {} ELSE {"ipv4"}) \cup (IF a6 = None THEN {} ELSE {"ipv6"})
            |-> IF k = "ipv4" THEN a4 ELSE a6]

-----------------------------------------------------------------------------
(* State *)

Protocols == {4, 6}
Procs == {1, 2}

NoEntry == [exists |-> FALSE, content |-> <<>>, ctime |-> 0]

\* a caller's locals; i is the position in ip_url_yunohost_tab[:3], fetched the
\* fetches of this call in order, routeReqs the routing-table commands it ran;
\* present, elapsed (now - ctime) and origin are the cache entry as the call found it
IdleFrame ==
    [pc |-> "idle", protocol |-> 4, ip |-> None, mirrors |-> 0, i |-> 0,
     ip_count |-> <<>>, fetched |-> <<>>, routes |-> <<>>, routeReqs |-> 0,
     ipv6 |-> TRUE, present |-> FALSE, elapsed |-> 0, origin |-> "none",
     hit |-> FALSE, unavailable |-> FALSE]

\* the last call that ended; found is how the entry it found had come to be
NoPrev == [valid |-> FALSE, protocol |-> 4, ip |-> None, raised |-> FALSE, found |-> "none"]

\* what a mirror fetch can give: a failure, or a text
Outcomes ==
    {[ok |-> FALSE, raw |-> <<>>]} \cup
    {[ok |-> TRUE, raw |-> t] : t \in {IP_A_NL, IP_B, BLANK}}

\* what `ip -P route show table all`.split("\n") can give
RouteTables == {<<R_default, EMPTY>>, <<R_lan, EMPTY>>, <<R_lan, R_cube, EMPTY>>}

InitEntries ==
    {NoEntry} \cup
    {[exists |-> TRUE, content |-> EMPTY, ctime |-> 60],
     [exists |-> TRUE, content |-> IP_A, ctime |-> 60],
     [exists |-> TRUE, content |-> IP_A, ctime |-> 240]}

TickSteps == {119, 120}

-----------------------------------------------------------------------------
(* get_public_ip, one step per action; p is the caller *)

Set(p, f) == frame' = [frame EXCEPT ![p] = f]

Entry(p) == cache[frame[p].protocol]

\* ip if ip else None, after read_file(cache_file).strip()
CacheValue(content) == IF strip(content) = <<>> THEN None ELSE strip(content)

\* ip or ""
OrEmpty(ip) == IF ip = None \/ ip = <<>> THEN <<>> ELSE ip

\* (the comparison turned around)
Fresh_Inverted(ctime, t) == Abs(ctime - t) > cache_duration

\* (the boundary taken for fresh)
Fresh_Inclusive(ctime, t) == Abs(ctime - t) <= cache_duration

\* the test of the cache's age
Fresh(ctime, t) == Abs(ctime - t) < cache_duration

\* the resolver's steps leave the other components alone
ResolverOnly == UNCHANGED <<routeVars, extractVars, gatewayVars, interfaceVars>>

ResolverIdle ==
    /\ now = 120
    /\ cache = [P \in Protocols |-> NoEntry]
    /\ frame = [p \in Procs |-> IdleFrame]
    /\ calls = 0
    /\ prev = NoPrev
    /\ entryFrom = [P \in Protocols |-> "none"]
    /\ produced = [P \in Protocols |-> {}]
    /\ netlog = [P \in Protocols |-> {}]

RouteIdle ==
    route_table = <<EMPTY>> /\ route_protocol = 4 /\ route_line = 1 /\ available = "unknown"

ExtractIdle ==
    /\ string = <<>> /\ skip_netmask = FALSE /\ skip_loopback = TRUE
    /\ scan = "done" /\ pos = 1 /\ result = <<>>

GatewayIdle ==
    /\ gw_output = <<>> /\ gw_pc = "idle" /\ gw_m = None
    /\ gw_addr = <<>> /\ gw_result = None

InterfacesIdle ==
    /\ if_blocks = <<>> /\ if_output = <<>> /\ if_pieces = <<>> /\ if_pc = "idle"
    /\ devices_raw = <<>> /\ devices = <<>>

Call(p) ==
    /\ frame[p].pc = "idle"
    /\ calls < MaxCalls
    /\ \E protocol \in Protocols :
          Set(p, [IdleFrame EXCEPT !.pc = "exists", !.protocol = protocol])
    /\ calls' = calls + 1
    /\ UNCHANGED <<now, cache, prev, entryFrom>>

\* (an empty file taken for no file)
CacheFilePresent_NonEmpty(entry) == entry.exists /\ entry.content # <<>>

\* os.path.exists(cache_file)
CacheFilePresent(entry) == entry.exists

Exists(p) ==
    /\ frame[p].pc = "exists"
    /\ Set(p, [frame[p] EXCEPT !.pc = IF CacheFilePresent(Entry(p)) THEN "getctime" ELSE "ipv6",
                               !.present = Entry(p).exists,
                               !.elapsed = IF Entry(p).exists THEN now - Entry(p).ctime ELSE 0,
                               !.origin = entryFrom[frame[p].protocol]])
    /\ UNCHANGED <<now, cache, calls, prev, entryFrom>>

\* abs(os.path.getctime(cache_file) - time.time()) < cache_duration
GetCtime(p) ==
    /\ frame[p].pc = "getctime"
    /\ Set(p, [frame[p] EXCEPT !.pc = IF Fresh(Entry(p).ctime, now) THEN "read" ELSE "ipv6"])
    /\ UNCHANGED <<now, cache, calls, prev, entryFrom>>

\* ip = read_file(cache_file).strip(); ip = ip if ip else None
ReadCache(p) ==
    /\ frame[p].pc = "read"
    /\ Set(p, [frame[p] EXCEPT !.pc = "done", !.hit = TRUE,
                               !.ip = CacheValue(Entry(p).content)])
    /\ UNCHANGED <<now, cache, calls, prev, entryFrom>>

\* (the test of /proc/net/if_inet6 left out)
AfterIpv6Check_NoShortCut(f, supported) == [f EXCEPT !.pc = "routes", !.ipv6 = supported]

\* the frame after the test of /proc/net/if_inet6, which exists or not
AfterIpv6Check(f, supported) ==
    IF f.protocol = 6 /\ ~supported
    THEN [f EXCEPT !.pc = "truncate", !.ipv6 = supported, !.ip = None, !.unavailable = TRUE]
    ELSE [f EXCEPT !.pc = "routes", !.ipv6 = supported]

\* get_public_ip_from_remote_server: protocol == 6 and not os.path.exists("/proc/net/if_inet6")
\* (for protocol 4 the file is not looked at)
Ipv6Check(p) ==
    /\ frame[p].pc = "ipv6"
    /\ \E supported \in (IF frame[p].protocol = 6 THEN BOOLEAN ELSE {TRUE}) :
          Set(p, AfterIpv6Check(frame[p], supported))
    /\ UNCHANGED <<now, cache, calls, prev, entryFrom>>

\* (the failure of the command taken for an empty routing table)
AfterRouteFailure_AsNone(f) ==
    [f EXCEPT !.pc = "truncate", !.routeReqs = @ + 1, !.ip = None, !.unavailable = TRUE]

\* the frame after the command failed: nothing catches the exception
AfterRouteFailure(f) == [f EXCEPT !.pc = "raised", !.routeReqs = @ + 1]

\* check_output(f"ip -{protocol} route show table all") raises
RouteShowFails(p) ==
    /\ frame[p].pc = "routes"
    /\ Set(p, AfterRouteFailure(frame[p]))
    /\ UNCHANGED <<now, cache, calls, prev, entryFrom>>

\* (the early return left out)
AfterRoutes_NoReturn(f, routes) ==
    [f EXCEPT !.pc = "settings", !.routes = routes, !.routeReqs = @ + 1]

\* the frame after the routing table came back
AfterRoutes(f, routes) ==
    IF AnyDefaultRoute(routes)
    THEN [f EXCEPT !.pc = "settings", !.routes = routes, !.routeReqs = @ + 1]
    ELSE [f EXCEPT !.pc = "truncate", !.routes = routes, !.routeReqs = @ + 1,
                   !.ip = None, !.unavailable = TRUE]

\* routes = check_output(...).split("\n"); if not any(is_default_route(r) ...): return None
RouteShow(p) ==
    /\ frame[p].pc = "routes"
    /\ \E routes \in RouteTables : Set(p, AfterRoutes(frame[p], routes))
    /\ UNCHANGED <<now, cache, calls, prev, entryFrom>>

\* get_public_ips: settings_get("security.ipmirrors.v" + str(protocol)).split(",")
Settings(p) ==
    /\ frame[p].pc = "settings"
    /\ \E n \in 1..MaxMirrors : Set(p, [frame[p] EXCEPT !.pc = "fetch", !.mirrors = n, !.i = 1])
    /\ UNCHANGED <<now, cache, calls, prev, entryFrom>>

\* (the failure of a fetch not caught)
AfterFetch_Fatal(f, out) ==
    [f EXCEPT !.i = @ + 1,
              !.fetched = Append(@, [url |-> f.i, ok |-> out.ok, raw |-> out.raw]),
              !.ip_count = IF out.ok THEN CountVote(@, strip(out.raw)) ELSE @,
              !.pc = IF out.ok THEN "fetch" ELSE "raised"]

\* one turn of the loop of get_public_ips, the fetch giving `out`
AfterFetch(f, out) ==
    [f EXCEPT !.i = @ + 1,
              !.fetched = Append(@, [url |-> f.i, ok |-> out.ok, raw |-> out.raw]),
              !.ip_count = IF out.ok THEN CountVote(@, strip(out.raw)) ELSE @]

\* for url in ip_url_yunohost_tab[:3]: try: ip = download_text(url, timeout=15).strip() ...
Fetch(p) ==
    /\ frame[p].pc = "fetch"
    /\ frame[p].i <= MirrorsToQuery(frame[p].mirrors)
    /\ \E out \in Outcomes : Set(p, AfterFetch(frame[p], out))
    /\ UNCHANGED <<now, cache, calls, prev, entryFrom>>

\* ip_list = get_public_ips(protocol); return ip_list[0] if len(ip_list) > 0 else None
Winner(ip_count) == IF Len(ip_list(ip_count)) > 0 THEN ip_list(ip_count)[1] ELSE None

Tally(p) ==
    /\ frame[p].pc = "fetch"
    /\ frame[p].i > MirrorsToQuery(frame[p].mirrors)
    /\ Set(p, [frame[p] EXCEPT !.pc = "truncate", !.ip = Winner(frame[p].ip_count)])
    /\ UNCHANGED <<now, cache, calls, prev, entryFrom>>

\* write_to_file(cache_file, ip or ""): open(cache_file, "w") empties the file ...
Truncate(p) ==
    /\ frame[p].pc = "truncate"
    /\ Set(p, [frame[p] EXCEPT !.pc = "write"])
    /\ cache' = [cache EXCEPT ![frame[p].protocol] =
                    [exists |-> TRUE, content |-> <<>>, ctime |-> now]]
    /\ entryFrom' = [entryFrom EXCEPT ![frame[p].protocol] = "truncated"]
    /\ UNCHANGED <<now, calls, prev>>

\* how the entry being written came to be
Origin(f) ==
    IF f.unavailable THEN "unavailable"
    ELSE IF \A k \in 1..Len(f.fetched) : ~f.fetched[k].ok THEN "allfailed"
    ELSE "voted"

\* ... and then the content is written
Write(p) ==
    /\ frame[p].pc = "write"
    /\ Set(p, [frame[p] EXCEPT !.pc = "done"])
    /\ cache' = [cache EXCEPT ![frame[p].protocol] =
                    [exists |-> TRUE, content |-> OrEmpty(frame[p].ip), ctime |-> now]]
    /\ entryFrom' = [entryFrom EXCEPT ![frame[p].protocol] = Origin(frame[p])]
    /\ UNCHANGED <<now, calls, prev>>

\* return ip, or the exception of check_output reaches the caller
Return(p) ==
    /\ frame[p].pc \in {"done", "raised"}
    /\ prev' = [valid |-> TRUE, protocol |-> frame[p].protocol, ip |-> frame[p].ip,
                raised |-> frame[p].pc = "raised", found |-> frame[p].origin]
    /\ Set(p, IdleFrame)
    /\ UNCHANGED <<now, cache, calls, entryFrom>>

\* time passes between the calls
Tick ==
    /\ \A p \in Procs : frame[p].pc = "idle"
    /\ \E d \in TickSteps : now + d <= MaxNow /\ now' = now + d
    /\ UNCHANGED <<cache, frame, calls, prev, entryFrom, produced, netlog>>
    /\ ResolverOnly

Step(p) ==
    \/ Call(p) \/ Exists(p) \/ GetCtime(p) \/ ReadCache(p) \/ Ipv6Check(p)
    \/ RouteShowFails(p) \/ RouteShow(p) \/ Settings(p) \/ Fetch(p) \/ Tally(p)
    \/ Truncate(p) \/ Write(p) \/ Return(p)

-----------------------------------------------------------------------------
(* Spec: one caller, calls one after the other *)

Init ==
    /\ now = 120
    /\ cache \in [Protocols -> InitEntries]
    /\ frame = [p \in Procs |-> IdleFrame]
    /\ calls = 0
    /\ prev = NoPrev
    /\ entryFrom = [P \in Protocols |-> IF cache[P].exists THEN "init" ELSE "none"]
    /\ produced = [P \in Protocols |-> {}]
    /\ netlog = [P \in Protocols |-> {}]
    /\ RouteIdle /\ ExtractIdle /\ GatewayIdle /\ InterfacesIdle

Next == (Step(1) /\ UNCHANGED <<produced, netlog>> /\ ResolverOnly) \/ Tick

Spec == Init /\ [][Next]_vars

-----------------------------------------------------------------------------
(* SpecRace: two callers whose steps interleave, on an empty cache; nothing locks
   the cache file *)

\* history: what caller p's step did on the network, and the result of its fresh
\* resolution
Observe(p) ==
    LET f == frame[p]
        g == frame'[p]
        P == f.protocol
        seen == IF Len(g.fetched) > Len(f.fetched)
                THEN {IF g.fetched[Len(g.fetched)].ok
                      THEN strip(g.fetched[Len(g.fetched)].raw) ELSE <<"failed">>}
                ELSE IF g.unavailable /\ ~f.unavailable THEN {<<"unavailable">>}
                ELSE IF g.pc = "raised" /\ f.pc # "raised" THEN {<<"raised">>}
                ELSE {}
    IN  /\ netlog' = [netlog EXCEPT ![P] = @ \cup seen]
        /\ produced' = IF g.pc = "truncate" /\ f.pc # "truncate"
                       THEN [produced EXCEPT ![P] = @ \cup {g.ip}]
                       ELSE produced

InitRace == ResolverIdle /\ RouteIdle /\ ExtractIdle /\ GatewayIdle /\ InterfacesIdle

\* the setting lists at most RaceMirrors URLs in the behaviours of SpecRace
InRaceWorld(p) == frame'[p].mirrors <= RaceMirrors

NextRace == (\E p \in Procs : Step(p) /\ Observe(p) /\ InRaceWorld(p) /\ ResolverOnly) \/ Tick

SpecRace == InitRace /\ [][NextRace]_vars

-----------------------------------------------------------------------------
(* SpecVariant: get_public_ip of src/yunohost/utils/network.py.  Its cache, its
   IPv6 test and its route check read as in src/utils/network.py; it asks two
   fixed mirrors and returns the first answer. *)

\* ip_url_yunohost_tab = ["https://ip%s.yunohost.org" % ..., "https://0-ip%s.yunohost.org" % ...]
VariantUrls(p) ==
    /\ frame[p].pc = "settings"
    /\ Set(p, [frame[p] EXCEPT !.pc = "vfetch", !.mirrors = 2, !.i = 1])
    /\ UNCHANGED <<now, cache, calls, prev, entryFrom>>

\* one turn of the loop, the fetch giving `out`: `return download_text(url,
\* timeout=30).strip()`, or the handler, whose `self.logger_debug(...)` names a
\* `self` that is defined nowhere: a NameError leaves the function (so the loop has
\* no second turn and the `return None` after it is never reached)
AfterVariantFetch(f, out) ==
    IF out.ok
    THEN [f EXCEPT !.fetched = Append(@, [url |-> f.i, ok |-> TRUE, raw |-> out.raw]),
                   !.ip = strip(out.raw), !.pc = "truncate"]
    ELSE [f EXCEPT !.fetched = Append(@, [url |-> f.i, ok |-> FALSE, raw |-> out.raw]),
                   !.pc = "raised"]

\* for url in ip_url_yunohost_tab: try: return download_text(...).strip() except ...
VariantFetch(p) ==
    /\ frame[p].pc = "vfetch"
    /\ frame[p].i <= frame[p].mirrors
    /\ \E out \in Outcomes : Set(p, AfterVariantFetch(frame[p], out))
    /\ UNCHANGED <<now, cache, calls, prev, entryFrom>>

StepVariant(p) ==
    \/ Call(p) \/ Exists(p) \/ GetCtime(p) \/ ReadCache(p) \/ Ipv6Check(p)
    \/ RouteShowFails(p) \/ RouteShow(p) \/ VariantUrls(p) \/ VariantFetch(p)
    \/ Truncate(p) \/ Write(p) \/ Return(p)

NextVariant == (StepVariant(1) /\ UNCHANGED <<produced, netlog>> /\ ResolverOnly) \/ Tick

SpecVariant == Init /\ [][NextVariant]_vars

-----------------------------------------------------------------------------
(* SpecVote: two fresh resolutions side by side, each at the loop of
   get_public_ips with its own list of mirrors; what the mirrors answer is drawn
   fetch by fetch *)

\* a call that found no entry and a default route, and read the setting
AtLoop(n) ==
    [IdleFrame EXCEPT !.pc = "fetch", !.mirrors = n, !.i = 1, !.routeReqs = 1,
                      !.routes = <<R_default, EMPTY>>]

InitVote ==
    /\ now = 120
    /\ cache = [P \in Protocols |-> NoEntry]
    /\ frame \in [Procs -> {AtLoop(n) : n \in 1..MaxMirrors}]
    /\ calls = 2
    /\ prev = NoPrev
    /\ entryFrom = [P \in Protocols |-> "none"]
    /\ produced = [P \in Protocols |-> {}]
    /\ netlog = [P \in Protocols |-> {}]
    /\ RouteIdle /\ ExtractIdle /\ GatewayIdle /\ InterfacesIdle

NextVote ==
    \E p \in Procs : (Fetch(p) \/ Tally(p)) /\ UNCHANGED <<produced, netlog>> /\ ResolverOnly

SpecVote == InitVote /\ [][NextVote]_vars

-----------------------------------------------------------------------------
(* SpecRoute: the default-route check on a routing table, line by line as
   any(is_default_route(r) for r in routes) goes *)

RouteLines == {R_default, R_lan, R_cube, R_v4in6, R_v6lan, R_indent, R_defaults, R_after, EMPTY}

RECURSIVE TablesUpTo(_)
TablesUpTo(n) ==
    IF n = 0 THEN {<<>>}
    ELSE TablesUpTo(n - 1) \cup {Append(t, r) : t \in TablesUpTo(n - 1), r \in RouteLines}

\* split("\n") gives at least one line
InitRoute ==
    /\ ResolverIdle /\ ExtractIdle /\ GatewayIdle /\ InterfacesIdle
    /\ route_table \in TablesUpTo(MaxRouteLines) \ {<<>>}
    /\ route_protocol \in Protocols
    /\ route_line = 1
    /\ available = "unknown"

\* the line is a default route: any() answers True
LineIsDefault ==
    /\ available = "unknown" /\ route_line <= Len(route_table)
    /\ is_default_route(route_table[route_line])
    /\ available' = "yes"
    /\ UNCHANGED <<route_table, route_protocol, route_line, resolverVars, extractVars, gatewayVars, interfaceVars>>

\* the line is not: on to the next
LineIsNot ==
    /\ available = "unknown" /\ route_line <= Len(route_table)
    /\ ~is_default_route(route_table[route_line])
    /\ route_line' = route_line + 1
    /\ UNCHANGED <<route_table, route_protocol, available, resolverVars, extractVars, gatewayVars, interfaceVars>>

\* no line left: any() answers False
NoLineLeft ==
    /\ available = "unknown" /\ route_line > Len(route_table)
    /\ available' = "no"
    /\ UNCHANGED <<route_table, route_protocol, route_line, resolverVars, extractVars, gatewayVars, interfaceVars>>

NextRoute == LineIsDefault \/ LineIsNot \/ NoLineLeft

SpecRoute == InitRoute /\ [][NextRoute]_vars

-----------------------------------------------------------------------------
(* SpecExtract: _extract_inet on a text, one match of finditer per step *)

T_lo4 == <<"1","2","7",".","0",".","0",".","1">>
T_ip4 == <<"1","0",".","0",".","0",".","5">>
T_mask8 == <<"/","8"," ">>
T_space == <<" ">>
T_lo6 == <<":",":","1">>
T_ip6 == <<"f","e","8","0",":",":","1">>
T_mask64 == <<"/","6","4">>

Tokens == {T_lo4, T_ip4, T_mask8, T_space, T_lo6, T_ip6, T_mask64}

RECURSIVE TextsUpTo(_)
TextsUpTo(n) ==
    IF n = 0 THEN {<<>>}
    ELSE TextsUpTo(n - 1) \cup {t \o w : t \in TextsUpTo(n - 1), w \in Tokens}

InitExtract ==
    /\ ResolverIdle /\ RouteIdle /\ GatewayIdle /\ InterfacesIdle
    /\ string \in TextsUpTo(MaxTokens)
    /\ skip_netmask \in BOOLEAN
    /\ skip_loopback \in BOOLEAN
    /\ scan = "ipv4"
    /\ pos = 1
    /\ result = <<>>

\* the dict with one more key
WithKey(dict, key, addr) == [k \in DOMAIN dict \cup {key} |-> IF k = key THEN addr ELSE dict[k]]

\* for m in re.finditer(ip4_pattern, string): a loopback match, skipped
Ip4Skipped ==
    LET m == NextIp4(string, pos, ~skip_netmask) IN
    /\ scan = "ipv4" /\ m[1] # 0
    /\ SkipIp4(Group1(string, m), skip_loopback)
    /\ pos' = m[2]
    /\ UNCHANGED <<string, skip_netmask, skip_loopback, scan, result, resolverVars, routeVars, gatewayVars, interfaceVars>>

\* result["ipv4"] = addr; break
Ip4Found ==
    LET m == NextIp4(string, pos, ~skip_netmask) IN
    /\ scan = "ipv4" /\ m[1] # 0
    /\ ~SkipIp4(Group1(string, m), skip_loopback)
    /\ result' = WithKey(result, "ipv4", Group1(string, m))
    /\ scan' = "ipv6" /\ pos' = 1
    /\ UNCHANGED <<string, skip_netmask, skip_loopback, resolverVars, routeVars, gatewayVars, interfaceVars>>

\* no match left
Ip4None ==
    /\ scan = "ipv4" /\ NextIp4(string, pos, ~skip_netmask)[1] = 0
    /\ scan' = "ipv6" /\ pos' = 1
    /\ UNCHANGED <<string, skip_netmask, skip_loopback, result, resolverVars, routeVars, gatewayVars, interfaceVars>>

\* for m in re.finditer(ip6_pattern, string): a loopback match, skipped
Ip6Skipped ==
    LET m == NextIp6(string, pos, ~skip_netmask) IN
    /\ scan = "ipv6" /\ m[1] # 0
    /\ SkipIp6(Group1(string, m), skip_loopback)
    /\ pos' = m[2]
    /\ UNCHANGED <<string, skip_netmask, skip_loopback, scan, result, resolverVars, routeVars, gatewayVars, interfaceVars>>

\* result["ipv6"] = addr; break
Ip6Found ==
    LET m == NextIp6(string, pos, ~skip_netmask) IN
    /\ scan = "ipv6" /\ m[1] # 0
    /\ ~SkipIp6(Group1(string, m), skip_loopback)
    /\ result' = WithKey(result, "ipv6", Group1(string, m))
    /\ scan' = "done" /\ pos' = 1
    /\ UNCHANGED <<string, skip_netmask, skip_loopback, resolverVars, routeVars, gatewayVars, interfaceVars>>

\* no match left: return result
Ip6None ==
    /\ scan = "ipv6" /\ NextIp6(string, pos, ~skip_netmask)[1] = 0
    /\ scan' = "done" /\ pos' = 1
    /\ UNCHANGED <<string, skip_netmask, skip_loopback, result, resolverVars, routeVars, gatewayVars, interfaceVars>>

NextExtract == Ip4Skipped \/ Ip4Found \/ Ip4None \/ Ip6Skipped \/ Ip6Found \/ Ip6None

SpecExtract == InitExtract /\ [][NextExtract]_vars

-----------------------------------------------------------------------------
(* SpecGateway: get_gateway on what `ip route show` printed *)

L_default_via == <<"d","e","f","a","u","l","t"," ","v","i","a"," ">>
L_dev == <<" ","d","e","v"," ">>

G_ip4 == <<"1","0",".","0",".","0",".","1">>
G_ip6 == <<"f","e","8","0",":",":","1">>
G_lo4 == <<"1","2","7",".","0",".","0",".","1">>
G_dev == <<" ","d","e","v"," ","e","t","h","0">>
G_mask == <<"/","2","4">>
G_space == <<" ">>
G_nl == <<"\n">>
G_none == <<"n","o"," ","d","e","f","a","u","l","t"," ","h","e","r","e">>

GatewayTokens == {L_default_via, G_ip4, G_ip6, G_lo4, G_dev, G_mask, G_space, G_nl, G_none}

RECURSIVE DumpsUpTo(_)
DumpsUpTo(n) ==
    IF n = 0 THEN {<<>>}
    ELSE DumpsUpTo(n - 1) \cup {t \o w : t \in DumpsUpTo(n - 1), w \in GatewayTokens}

IsLower(c) ==
    c \in {"a","b","c","d","e","f","g","h","i","j","k","l","m",
           "n","o","p","q","r","s","t","u","v","w","x","y","z"}

\* the literal text lit stands at k
LitAt(s, k, lit) == k >= 1 /\ k + Len(lit) - 1 <= Len(s) /\ SubSeq(s, k, k + Len(lit) - 1) = lit

\* the end of the line k is on: the position of its "\n", or one past the text
RECURSIVE LineEnd(_, _)
LineEnd(s, k) == IF k > Len(s) \/ s[k] = "\n" THEN k ELSE LineEnd(s, k + 1)

\* " dev ([a-z]+[0-9]?)" can match at j
DevAt(s, j) == LitAt(s, j, L_dev) /\ IsLower(At(s, j + Len(L_dev)))

\* (.*) is greedy and stays on its line: the last j in from..to where the rest of
\* the pattern matches, or 0
RECURSIVE LastDev(_, _, _)
LastDev(s, from, to) ==
    IF to < from THEN 0
    ELSE IF DevAt(s, to) THEN to
    ELSE LastDev(s, from, to - 1)

\* re.search(r"default via (.*) dev ([a-z]+[0-9]?)", output) from k on: the first
\* and the last position of group 1 plus one, or <<0, 0>>
RECURSIVE GatewaySearch(_, _)
GatewaySearch(s, k) ==
    IF k > Len(s) THEN <<0, 0>>
    ELSE LET from == k + Len(L_default_via) IN
         IF LitAt(s, k, L_default_via) /\ LastDev(s, from, LineEnd(s, from)) # 0
         THEN <<from, LastDev(s, from, LineEnd(s, from))>>
         ELSE GatewaySearch(s, k + 1)

\* (the first address of any family taken)
GatewayOf_Any(addr) ==
    IF "ipv4" \in DOMAIN addr THEN addr["ipv4"]
    ELSE IF "ipv6" \in DOMAIN addr THEN addr["ipv6"]
    ELSE None

\* addr.popitem()[1] if len(addr) == 1 else None
GatewayOf(addr) ==
    IF Cardinality(DOMAIN addr) = 1 THEN addr[CHOOSE key \in DOMAIN addr : TRUE] ELSE None

InitGateway ==
    /\ ResolverIdle /\ RouteIdle /\ ExtractIdle /\ InterfacesIdle
    /\ gw_output \in DumpsUpTo(MaxGatewayTokens)
    /\ gw_pc = "search"
    /\ gw_m = None
    /\ gw_addr = <<>>
    /\ gw_result = None

\* if not m: return None
GatewayNoMatch ==
    /\ gw_pc = "search" /\ GatewaySearch(gw_output, 1)[1] = 0
    /\ gw_pc' = "done" /\ gw_result' = None
    /\ UNCHANGED <<gw_output, gw_m, gw_addr, resolverVars, routeVars, extractVars, interfaceVars>>

\* m = re.search(...), a match
GatewayMatch ==
    /\ gw_pc = "search" /\ GatewaySearch(gw_output, 1)[1] # 0
    /\ gw_m' = Group1(gw_output, GatewaySearch(gw_output, 1))
    /\ gw_pc' = "extract"
    /\ UNCHANGED <<gw_output, gw_addr, gw_result, resolverVars, routeVars, extractVars, interfaceVars>>

\* addr = _extract_inet(m.group(1), True)
GatewayExtract ==
    /\ gw_pc = "extract"
    /\ gw_addr' = extract_inet(gw_m, TRUE, TRUE)
    /\ gw_pc' = "return"
    /\ UNCHANGED <<gw_output, gw_m, gw_result, resolverVars, routeVars, extractVars, interfaceVars>>

\* return addr.popitem()[1] if len(addr) == 1 else None
GatewayReturn ==
    /\ gw_pc = "return"
    /\ gw_result' = GatewayOf(gw_addr)
    /\ gw_pc' = "done"
    /\ UNCHANGED <<gw_output, gw_m, gw_addr, resolverVars, routeVars, extractVars, interfaceVars>>

NextGateway == GatewayNoMatch \/ GatewayMatch \/ GatewayExtract \/ GatewayReturn

SpecGateway == InitGateway /\ [][NextGateway]_vars

-----------------------------------------------------------------------------
(* SpecInterfaces: get_network_interfaces on what `ip addr show` printed.  A dump
   lists devices, each with a heading "<index>: <name>[@<peer>]: <flags>" and
   indented address lines. *)

N_lo == <<"l","o">>
N_eth0 == <<"e","t","h","0">>
N_veth1 == <<"v","e","t","h","1">>
P_none == <<>>
P_if2 == <<"i","f","2">>
F_up == <<"<","U","P",">","\n">>
A_lo4 == <<" "," "," "," ","i","n","e","t"," ","1","2","7",".","0",".","0",".","1","/","8","\n">>
A_lo6 == <<" "," "," "," ","i","n","e","t","6"," ",":",":","1","/","1","2","8","\n">>
A_ip4 == <<" "," "," "," ","i","n","e","t"," ","1","0",".","0",".","0",".","5","/","8","\n">>
A_ip4b == <<" "," "," "," ","i","n","e","t"," ","1","0",".","0",".","0",".","6","/","8","\n">>
A_ip6 == <<" "," "," "," ","i","n","e","t","6"," ","f","e","8","0",":",":","1","/","6","4","\n">>

DeviceNames == {N_lo, N_eth0, N_veth1}

DevicePeers == {P_none, P_if2}

AddressLines == {<<>>, A_lo4 \o A_lo6, A_ip4 \o A_ip4b, A_ip6 \o A_ip4}

DeviceBlocks == [name : DeviceNames, peer : DevicePeers, lines : AddressLines]

RECURSIVE BlocksUpTo(_)
BlocksUpTo(n) ==
    IF n = 0 THEN {<<>>}
    ELSE BlocksUpTo(n - 1) \cup {Append(t, b) : t \in BlocksUpTo(n - 1), b \in DeviceBlocks}

\* the index `ip` prints for the k-th device
IndexText(k) == IF k < 10 THEN <<ToString(k)>> ELSE <<"1", ToString(k - 10)>>

\* the text of one device
RenderBlock(k, b) ==
    IndexText(k) \o <<":", " ">> \o b.name
        \o (IF b.peer = P_none THEN <<>> ELSE <<"@">> \o b.peer)
        \o <<":", " ">> \o F_up \o b.lines

\* the text of the dump: the devices numbered 1, 2, 10, 11, ...
RECURSIVE Render(_, _)
Render(blocks, k) ==
    IF k > Len(blocks) THEN <<>>
    ELSE RenderBlock(IF k <= 2 THEN k ELSE k + 7, blocks[k]) \o Render(blocks, k + 1)

\* ^ under re.MULTILINE
LineStart(s, k) == k = 1 \/ s[k - 1] = "\n"

\* the end of the digits from k on
RECURSIVE DigitsEnd(_, _)
DigitsEnd(s, k) == IF IsDigit(At(s, k)) THEN DigitsEnd(s, k + 1) ELSE k

\* r"^(?:[0-9]+: )" matches at k: the position after the match, or 0
HeadingAt(s, k) ==
    IF LineStart(s, k) /\ IsDigit(At(s, k)) /\ LitAt(s, DigitsEnd(s, k), <<":", " ">>)
    THEN DigitsEnd(s, k) + 2
    ELSE 0

\* the first match of the pattern from k on, or 0
NextHeading(s, k) ==
    IF \E j \in k..Len(s) : HeadingAt(s, j) # 0
    THEN CHOOSE j \in k..Len(s) : HeadingAt(s, j) # 0 /\ \A i \in k..(j - 1) : HeadingAt(s, i) = 0
    ELSE 0

\* re.split(r"^(?:[0-9]+: )", output, flags=re.MULTILINE): the texts between the
\* matches, from k on
RECURSIVE Split(_, _)
Split(s, k) ==
    IF NextHeading(s, k) = 0 THEN <<SubSeq(s, k, Len(s))>>
    ELSE <<SubSeq(s, k, NextHeading(s, k) - 1)>> \o Split(s, HeadingAt(s, NextHeading(s, k)))

\* the end of the run of [^\s@] from k on
RECURSIVE NameEnd(_, _)
NameEnd(d, k) ==
    IF k <= Len(d) /\ ~IsSpace(d[k]) /\ d[k] # "@" THEN NameEnd(d, k + 1) ELSE k

\* the end of the run of \S from k on
RECURSIVE NonSpaceEnd(_, _)
NonSpaceEnd(d, k) == IF k <= Len(d) /\ ~IsSpace(d[k]) THEN NonSpaceEnd(d, k + 1) ELSE k

\* "@[\S]+" at k followed by ": ": the last end e in k+1..to that lets ": " match,
\* or 0 (the engine gives characters back one by one)
RECURSIVE PeerEnd(_, _, _)
PeerEnd(d, k, to) ==
    IF to < k + 1 THEN 0
    ELSE IF LitAt(d, to + 1, <<":", " ">>) THEN to
    ELSE PeerEnd(d, k, to - 1)

\* "(?:@[\S]+)?: " at k: where group 2 begins, or 0
AfterName(d, k) ==
    IF At(d, k) = "@" /\ PeerEnd(d, k, NonSpaceEnd(d, k + 1) - 1) # 0
    THEN PeerEnd(d, k, NonSpaceEnd(d, k + 1) - 1) + 3
    ELSE IF LitAt(d, k, <<":", " ">>) THEN k + 2
    ELSE 0

\* re.match(r"([^\s@]+)(?:@[\S]+)?: (.*)", d, flags=re.DOTALL): group 1 is
\* d[1..len], tried from the longest down; <<len, where group 2 begins>> or <<0, 0>>
RECURSIVE DeviceMatch(_, _)
DeviceMatch(d, len) ==
    IF len < 1 THEN <<0, 0>>
    ELSE IF AfterName(d, len + 1) # 0 THEN <<len, AfterName(d, len + 1)>>
    ELSE DeviceMatch(d, len - 1)

MatchDevice(d) == DeviceMatch(d, NameEnd(d, 1) - 1)

\* (the loopback interface kept)
KeepDevice_All(name) == TRUE

\* if name != "lo"
KeepDevice(name) == name # N_lo

InitInterfaces ==
    /\ ResolverIdle /\ RouteIdle /\ ExtractIdle /\ GatewayIdle
    /\ if_blocks \in BlocksUpTo(MaxDevices)
    /\ if_output = Render(if_blocks, 1)
    /\ if_pieces = <<>>
    /\ if_pc = "split"
    /\ devices_raw = <<>>
    /\ devices = <<>>

\* for d in re.split(...)
InterfacesSplit ==
    /\ if_pc = "split"
    /\ if_pieces' = Split(if_output, 1)
    /\ if_pc' = "match"
    /\ UNCHANGED <<if_blocks, if_output, devices_raw, devices>>
    /\ UNCHANGED <<resolverVars, routeVars, extractVars, gatewayVars>>

\* m = re.match(...); if m: devices_raw[m.group(1)] = m.group(2)
PieceIsDevice ==
    LET d == Head(if_pieces)
        m == MatchDevice(d)
    IN  /\ if_pc = "match" /\ if_pieces # <<>> /\ m[1] # 0
        /\ devices_raw' = WithKey(devices_raw, SubSeq(d, 1, m[1]), SubSeq(d, m[2], Len(d)))
        /\ if_pieces' = Tail(if_pieces)
        /\ UNCHANGED <<if_blocks, if_output, if_pc, devices>>
        /\ UNCHANGED <<resolverVars, routeVars, extractVars, gatewayVars>>

\* no match: the piece is left out
PieceIsNot ==
    /\ if_pc = "match" /\ if_pieces # <<>> /\ MatchDevice(Head(if_pieces))[1] = 0
    /\ if_pieces' = Tail(if_pieces)
    /\ UNCHANGED <<if_blocks, if_output, if_pc, devices_raw, devices>>
    /\ UNCHANGED <<resolverVars, routeVars, extractVars, gatewayVars>>

\* devices = {name: _extract_inet(addrs) for name, addrs in devices_raw.items() if name != "lo"}
InterfacesParse ==
    /\ if_pc = "match" /\ if_pieces = <<>>
    /\ devices' = [name \in {n \in DOMAIN devices_raw : KeepDevice(n)} |->
                        extract_inet(devices_raw[name], FALSE, TRUE)]
    /\ if_pc' = "done"
    /\ UNCHANGED <<if_blocks, if_output, if_pieces, devices_raw>>
    /\ UNCHANGED <<resolverVars, routeVars, extractVars, gatewayVars>>

NextInterfaces == InterfacesSplit \/ PieceIsDevice \/ PieceIsNot \/ InterfacesParse

SpecInterfaces == InitInterfaces /\ [][NextInterfaces]_vars

-----------------------------------------------------------------------------
(* Properties of the resolver, checked under Spec *)

Ended(f) == f.pc \in {"done", "raised"}

\* the call went to the mirrors and its loop is over
Voted(f) == f.pc \in {"truncate", "write", "done"} /\ ~f.hit /\ f.routeReqs > 0 /\ f.mirrors > 0

Successes(f) == {k \in 1..Len(f.fetched) : f.fetched[k].ok}

\* the trimmed text of each response a mirror can give
Trimmed(raw) ==
    CASE raw = IP_A_NL -> IP_A
      [] raw = IP_B -> IP_B
      [] raw = BLANK -> <<>>
      [] OTHER -> raw

VotesFor(f, a) == Cardinality({k \in Successes(f) : Trimmed(f.fetched[k].raw) = a})

Addresses == {IP_A, IP_B, <<>>}

\* C1: a fresh resolution with at least one successful mirror returns an address
\* whose vote count is maximal among the addresses that received votes (so
\* "1.2.3.4", "1.2.3.4", "5.6.7.8" in any order give "1.2.3.4").
C1_MajorityWins ==
    \A p \in Procs :
        (Voted(frame[p]) /\ Successes(frame[p]) # {}) =>
            \A a \in Addresses : VotesFor(frame[p], a) <= VotesFor(frame[p], frame[p].ip)

\* C2: two consecutive get_public_ip calls for one protocol, the second made while
\* the entry is less than 120 seconds old, return the identical result, and the
\* second queries no mirror.
C2_CacheIdempotence ==
    \A p \in Procs :
        LET f == frame[p] IN
        (/\ f.pc = "done"
         /\ prev.valid /\ ~prev.raised /\ prev.protocol = f.protocol
         /\ f.present /\ 0 <= f.elapsed /\ f.elapsed < 120) =>
            (f.ip = prev.ip /\ f.fetched = <<>>)

\* the address an entry stores: none for an empty entry
StoredAddress(entry) == IF entry.content = <<>> THEN None ELSE entry.content

NoNetwork(f) == f.fetched = <<>> /\ f.routeReqs = 0 /\ f.mirrors = 0

\* C3 as stated: a call that finds an entry with now - capturedAt < 120, also one
\* captured later than now, returns the stored address without network activity.
C3_HitWheneverYounger ==
    \A p \in Procs :
        LET f == frame[p] IN
        (Ended(f) /\ f.present /\ f.elapsed < 120) =>
            (f.hit /\ f.pc = "done" /\ f.ip = StoredAddress(cache[f.protocol]) /\ NoNetwork(f))

\* C3 amended: a call that finds an entry with |now - capturedAt| < 120 returns the
\* stored address (none for an empty entry) without network activity: no mirror is
\* queried and the routing table is not requested.
C3_HitWithinWindow ==
    \A p \in Procs :
        LET f == frame[p] IN
        (Ended(f) /\ f.present /\ -120 < f.elapsed /\ f.elapsed < 120) =>
            (f.hit /\ f.pc = "done" /\ f.ip = StoredAddress(cache[f.protocol]) /\ NoNetwork(f))

\* a hit on an entry stamped one second later than now returns the stored address
C3_Witness ==
    /\ frame[1].pc = "done" /\ frame[1].hit /\ frame[1].elapsed = -1
    /\ frame[1].ip = IP_A

\* C4: a failed fetch is never fatal: the first min(3, n) mirrors are queried once
\* each in configuration order whatever failed before, none beyond the third, a
\* failed mirror gives no vote and a successful one exactly one vote for its
\* trimmed response.
C4_EveryMirrorTried ==
    \A p \in Procs :
        LET f == frame[p] IN
        /\ \A k \in 1..Len(f.fetched) : f.fetched[k].url = k
        /\ Len(f.fetched) <= 3 /\ Len(f.fetched) <= f.mirrors
        /\ f.pc = "fetch" => Len(f.fetched) = f.i - 1
        /\ Voted(f) => Len(f.fetched) = (IF f.mirrors < 3 THEN f.mirrors ELSE 3)
        /\ f.pc = "raised" => f.fetched = <<>>
        /\ \A a \in Addresses \cup {IP_A_NL, BLANK} : CountOf(f.ip_count, a) = VotesFor(f, a)

\* the second of four mirrors failed, the first and third answered
C4_Witness ==
    LET f == frame[1] IN
    /\ Voted(f) /\ f.mirrors = 4 /\ Len(f.fetched) = 3
    /\ f.fetched[1].ok /\ ~f.fetched[2].ok /\ f.fetched[3].ok
    /\ f.ip_count = <<<<IP_A, 2>>>>

\* the route check said the protocol is unavailable
ReportedUnavailable(f) ==
    \/ f.protocol = 6 /\ ~f.ipv6
    \/ f.routeReqs = 1 /\ f.routes # <<>> /\ ~AnyDefaultRoute(f.routes)

\* C5: on a cache miss with the protocol reported unavailable (no qualifying route
\* line, or protocol 6 without kernel support) the call returns none, records none
\* in the protocol's entry, and contacts no mirror.
C5_UnavailableIsNone ==
    \A p \in Procs :
        LET f == frame[p] IN
        /\ (f.pc \notin {"idle", "exists", "getctime", "read", "ipv6", "routes"}
            /\ ~f.hit /\ ReportedUnavailable(f)) =>
              (f.ip = None /\ f.fetched = <<>> /\ f.mirrors = 0 /\ f.pc # "raised")
        /\ (f.pc = "done" /\ ~f.hit /\ ReportedUnavailable(f)) =>
              (cache[f.protocol].exists /\ cache[f.protocol].content = <<>>)

\* a stale entry holding an address was replaced by none
C5_Witness ==
    LET f == frame[1] IN
    /\ f.pc = "done" /\ f.present /\ ~f.hit /\ f.protocol = 4
    /\ f.routes = <<R_lan, EMPTY>> /\ f.ip = None
    /\ cache[4].content = <<>> /\ cache[4].ctime = now

AllFailed(f) == f.fetched # <<>> /\ Successes(f) = {}

\* C10: a call in which every queried mirror failed returns none and leaves an
\* entry holding none (empty content); a later call within the TTL takes that
\* entry as a hit, returns none and queries no mirror.
C10_NegativeIsCached ==
    \A p \in Procs :
        LET f == frame[p] IN
        /\ (Voted(f) /\ AllFailed(f)) => f.ip = None
        /\ (f.pc = "done" /\ ~f.hit /\ AllFailed(f)) =>
              (cache[f.protocol].exists /\ cache[f.protocol].content = <<>>)
        /\ (f.pc \notin {"idle", "exists"} /\ f.origin = "allfailed"
            /\ 0 <= f.elapsed /\ f.elapsed < 120) =>
              (f.pc \in {"getctime", "read", "done"} /\ NoNetwork(f)
               /\ (f.pc = "done" => f.hit /\ f.ip = None))

\* 119 seconds after a call whose mirrors all failed, a call is answered none from the cache
C10_Witness ==
    LET f == frame[1] IN
    /\ f.pc = "done" /\ f.hit /\ f.origin = "allfailed" /\ f.elapsed = 119
    /\ f.ip = None /\ prev.valid /\ prev.ip = None

-----------------------------------------------------------------------------
(* Properties of concurrent calls, checked under SpecRace *)

\* every mirror reported one and the same address, over a usable route
MirrorsAgree(P) == \E a \in {IP_A, IP_B} : netlog[P] \subseteq {a}

\* C9: with two interleaved calls for one protocol and no locking, each call
\* returns a value some fresh resolution produced (the race costs only a redundant
\* set of queries or an overwritten entry), and no call returns none while every
\* mirror reports the same address over a usable route.
C9_RaceIsHarmless ==
    \A p \in Procs :
        LET f == frame[p] IN
        f.pc = "done" =>
            /\ OrEmpty(f.ip) \in {OrEmpty(r) : r \in produced[f.protocol]}
            /\ MirrorsAgree(f.protocol) => f.ip # None

-----------------------------------------------------------------------------
(* Properties of the default-route check, checked under SpecRoute *)

\* the line signals availability for protocol P: it starts with `default`, or, for
\* protocol 6 only, it has a colon and its first field ends in /0, /1, /2 or /3
SignalsAvailability(r, P) ==
    \/ startswith(r, <<"d","e","f","a","u","l","t">>)
    \/ /\ P = 6
       /\ \E k \in 1..Len(r) : r[k] = ":"
       /\ LET field == FirstField(r) IN
          Len(field) >= 2 /\ SubSeq(field, Len(field) - 1, Len(field)) \in
              {<<"/","0">>, <<"/","1">>, <<"/","2">>, <<"/","3">>}

\* C6: the protocol is available iff some line signals availability; for protocol
\* 4 a line that does not start with `default` never makes it available.
C6_AvailableIffSignalled ==
    available # "unknown" =>
        (available = "yes" <=>
            \E k \in 1..Len(route_table) : SignalsAvailability(route_table[k], route_protocol))

-----------------------------------------------------------------------------
(* Properties of _extract_inet, checked under SpecExtract *)

Has(key) == key \in DOMAIN result

\* the part of an address before its slash
RECURSIVE BeforeSlash(_)
BeforeSlash(addr) ==
    IF addr = <<>> \/ Head(addr) = "/" THEN <<>> ELSE <<Head(addr)>> \o BeforeSlash(Tail(addr))

\* C7: with skip_loopback, for either skip_netmask, no loopback address is
\* returned: not an IPv4 address in 127., not ::1, and not ::1 with a prefix length.
C7_NoLoopbackReturned ==
    (scan = "done" /\ skip_loopback) =>
        /\ Has("ipv4") => SubSeq(result["ipv4"], 1, 4) # <<"1","2","7",".">>
        /\ Has("ipv6") => BeforeSlash(result["ipv6"]) # <<":",":","1">>

\* C8 as stated: with skip_netmask=false the prefix is optional, so the address
\* returned is the one skip_netmask=true returns, with its prefix when it has one.
C8_PrefixOptional ==
    (scan = "done" /\ ~skip_netmask) =>
        LET bare == extract_inet(string, TRUE, skip_loopback) IN
        /\ DOMAIN result = DOMAIN bare
        /\ \A key \in DOMAIN result : BeforeSlash(result[key]) = bare[key]

Occurs(addr, s) == \E k \in 1..Len(s) : Len(s) >= k + Len(addr) - 1 /\ SubSeq(s, k, k + Len(addr) - 1) = addr

Digits(s) == \A k \in 1..Len(s) : s[k] \in {"0","1","2","3","4","5","6","7","8","9"}

\* the address ends in a slash and one to `most` digits
HasPrefixLength(addr, most) ==
    LET bare == BeforeSlash(addr)
        len == Len(addr) - Len(bare) - 1
    IN  /\ len >= 1 /\ len <= most
        /\ Digits(SubSeq(addr, Len(bare) + 2, Len(addr)))

\* C8 amended: with skip_netmask=false the prefix length is required: only an
\* address directly followed by /<prefix> is matched and it is returned with the
\* prefix attached, so a text without a slash gives nothing and "127.0.0.1 10.0.0.5"
\* gives no IPv4; with skip_netmask=true the address is returned without a prefix,
\* and that text gives 10.0.0.5.
C8_PrefixRequired ==
    scan = "done" =>
        /\ \A key \in DOMAIN result : Occurs(result[key], string)
        /\ skip_netmask => \A key \in DOMAIN result : BeforeSlash(result[key]) = result[key]
        /\ ~skip_netmask =>
              /\ Has("ipv4") => HasPrefixLength(result["ipv4"], 2)
              /\ Has("ipv6") => HasPrefixLength(result["ipv6"], 3)
              /\ (\A k \in 1..Len(string) : string[k] # "/") => DOMAIN result = {}
        /\ (string = T_lo4 \o T_space \o T_ip4 /\ skip_loopback) =>
              (IF skip_netmask THEN Has("ipv4") /\ result["ipv4"] = T_ip4 ELSE ~Has("ipv4"))
        /\ (string = T_ip4 \o T_mask8) =>
              (Has("ipv4") /\ result["ipv4"] =
                  (IF skip_netmask THEN T_ip4 ELSE <<"1","0",".","0",".","0",".","5","/","8">>))

\* "127.0.0.1/8 10.0.0.5/8 " with the default flags: 127.0.0.1/8 is skipped and
\* 10.0.0.5/8 returned with its prefix
C8_Witness ==
    /\ scan = "done" /\ ~skip_netmask /\ skip_loopback
    /\ string = T_lo4 \o T_mask8 \o T_ip4 \o T_mask8
    /\ Has("ipv4") /\ result["ipv4"] = <<"1","0",".","0",".","0",".","5","/","8">>

-----------------------------------------------------------------------------
(* More properties of the resolver, checked under Spec *)

\* the call is past the test of /proc/net/if_inet6
PastIpv6Check(f) == f.pc \in {"routes", "settings", "fetch", "truncate", "write", "done", "raised"} /\ ~f.hit

\* C11: for protocol 6 on a host without kernel IPv6 support the fresh resolution
\* returns none without requesting the routing table and without contacting a
\* mirror; the routing-table command is issued, or about to be, only after the
\* IPv6-support check passed or when the protocol is 4.
C11_Ipv6CheckComesFirst ==
    \A p \in Procs :
        LET f == frame[p] IN
        /\ (PastIpv6Check(f) /\ f.protocol = 6 /\ ~f.ipv6) =>
              (/\ f.pc \in {"truncate", "write", "done"}
               /\ f.ip = None /\ f.routeReqs = 0 /\ f.routes = <<>>
               /\ f.mirrors = 0 /\ f.fetched = <<>>)
        /\ (f.pc = "routes" \/ f.routeReqs > 0) => (f.protocol = 4 \/ f.ipv6)
        /\ f.pc \in {"exists", "getctime", "read", "ipv6"} => f.routeReqs = 0
        /\ f.routeReqs <= 1

\* a miss for protocol 6 on a host without IPv6 ended with none, the routing table
\* never requested
C11_Witness ==
    LET f == frame[1] IN
    /\ f.pc = "done" /\ ~f.hit /\ f.protocol = 6 /\ ~f.ipv6
    /\ f.ip = None /\ f.routeReqs = 0 /\ f.fetched = <<>>

-----------------------------------------------------------------------------
(* Properties of the vote, checked under SpecVote *)

\* the most votes an address received
Highest(f) == CHOOSE n \in 0..MirrorLimit :
    (\A a \in Addresses : VotesFor(f, a) <= n) /\ (n = 0 \/ \E a \in Addresses : VotesFor(f, a) = n)

\* the addresses that received the most votes
Top(f) == {a \in Addresses : VotesFor(f, a) = Highest(f) /\ Highest(f) > 0}

\* the fetch that gave address a its first vote
FirstVote(f, a) ==
    CHOOSE k \in Successes(f) :
        Trimmed(f.fetched[k].raw) = a /\ \A j \in Successes(f) : Trimmed(f.fetched[j].raw) = a => k <= j

\* what the mirrors answered, fetch by fetch
OutcomesOf(f) == [k \in 1..Len(f.fetched) |-> <<f.fetched[k].ok, f.fetched[k].raw>>]

\* C12: the tie-break is deterministic: two fresh resolutions given the identical
\* ordered sequence of mirror outcomes return the same address, and when several
\* addresses tie for the highest vote count the one whose first vote arrived
\* earliest is returned.
C12_TieBreakIsFirstSeen ==
    /\ \A p, q \in Procs :
          (Voted(frame[p]) /\ Voted(frame[q]) /\ OutcomesOf(frame[p]) = OutcomesOf(frame[q])) =>
              frame[p].ip = frame[q].ip
    /\ \A p \in Procs :
          LET f == frame[p] IN
          (Voted(f) /\ Cardinality(Top(f)) > 1) =>
              /\ f.ip \in Top(f)
              /\ \A b \in Top(f) : FirstVote(f, f.ip) <= FirstVote(f, b)

\* both resolutions were answered 5.6.7.8, a blank text, 1.2.3.4: a tie of three, and
\* both return 5.6.7.8, one of them with a fourth mirror configured
C12_Witness ==
    /\ Voted(frame[1]) /\ Voted(frame[2])
    /\ frame[1].mirrors = 3 /\ frame[2].mirrors = 4
    /\ OutcomesOf(frame[1]) = <<<<TRUE, IP_B>>, <<TRUE, BLANK>>, <<TRUE, IP_A_NL>>>>
    /\ OutcomesOf(frame[2]) = OutcomesOf(frame[1])
    /\ frame[1].ip = IP_B /\ frame[2].ip = IP_B

-----------------------------------------------------------------------------
(* Properties of get_gateway, checked under SpecGateway *)

NoNewline(s, a, b) == \A k \in a..b : s[k] # "\n"

\* some line holds `default via <address> dev <ifname>`
SomeLineMatches(s) ==
    \E k \in 1..Len(s) : \E j \in (k + 12)..Len(s) :
        /\ SubSeq(s, k, k + 11) = L_default_via
        /\ j + 5 <= Len(s) /\ SubSeq(s, j, j + 4) = L_dev /\ IsLower(s[j + 5])
        /\ NoNewline(s, k + 12, j - 1)

\* C13: get_gateway gives none when no line matches `default via <address> dev
\* <ifname>`; otherwise it gives the single address extracted from the captured
\* <address> text, without prefix, when exactly one family was extracted, and none
\* when none or two were (a loopback or a text that is no address included); it
\* never ends in an error.  "default via 10.0.0.1 dev eth0\n" gives "10.0.0.1".
C13_GatewayOrNone ==
    gw_pc = "done" =>
        /\ ~SomeLineMatches(gw_output) => (gw_result = None /\ gw_m = None)
        /\ SomeLineMatches(gw_output) =>
              /\ gw_m # None
              /\ Occurs(L_default_via \o gw_m \o L_dev, gw_output)
              /\ NoNewline(gw_m, 1, Len(gw_m))
              /\ DOMAIN gw_addr \subseteq {"ipv4", "ipv6"}
              /\ \A key \in DOMAIN gw_addr : Occurs(gw_addr[key], gw_m)
              /\ \A key \in DOMAIN gw_addr :
                    DOMAIN gw_addr = {key} => (gw_result = gw_addr[key] /\ BeforeSlash(gw_result) = gw_result)
              /\ Cardinality(DOMAIN gw_addr) # 1 => gw_result = None
        /\ gw_output = L_default_via \o G_ip4 \o G_dev \o G_nl => gw_result = G_ip4
        /\ gw_output = L_default_via \o G_lo4 \o G_dev => gw_result = None
        /\ gw_output = L_default_via \o G_none \o G_dev => gw_result = None
        /\ gw_output = G_none => gw_result = None

\* "default via 10.0.0.1/24 dev eth0": 10.0.0.1 is returned, the prefix left out
C13_Witness ==
    /\ gw_pc = "done"
    /\ gw_output = L_default_via \o G_ip4 \o G_mask \o G_dev
    /\ gw_m = G_ip4 \o G_mask /\ DOMAIN gw_addr = {"ipv4"}
    /\ gw_result = G_ip4

-----------------------------------------------------------------------------
(* Properties of get_network_interfaces, checked under SpecInterfaces *)

A_ip4_text == <<"1","0",".","0",".","0",".","5","/","8">>
A_ip6_text == <<"f","e","8","0",":",":","1","/","6","4">>

\* the names in the headings of the dump
ListedNames == {if_blocks[k].name : k \in 1..Len(if_blocks)}

\* the last device listed under a name
LastListed(name) ==
    if_blocks[CHOOSE k \in 1..Len(if_blocks) :
        if_blocks[k].name = name /\ \A j \in (k + 1)..Len(if_blocks) : if_blocks[j].name # name]

\* a record is one address: a text without white space
OneAddress(text) == text # <<>> /\ \A k \in 1..Len(text) : ~IsSpace(text[k])

\* C14: the table get_network_interfaces returns never has the key `lo`, also when
\* the heading reads `lo@<peer>:`; every other heading `<index>: <name>:` gives
\* exactly the key <name>; and each value holds at most one IPv4 and at most one
\* IPv6 record, the first of the device.
C14_NoLoopbackKey ==
    if_pc = "done" =>
        /\ N_lo \notin DOMAIN devices
        /\ DOMAIN devices = ListedNames \ {N_lo}
        /\ \A name \in DOMAIN devices :
              /\ DOMAIN devices[name] \subseteq {"ipv4", "ipv6"}
              /\ \A key \in DOMAIN devices[name] : OneAddress(devices[name][key])
              /\ LastListed(name).lines = A_ip4 \o A_ip4b =>
                    devices[name] = [key \in {"ipv4"} |-> A_ip4_text]
              /\ LastListed(name).lines = A_ip6 \o A_ip4 =>
                    devices[name] = [key \in {"ipv4", "ipv6"} |->
                                        IF key = "ipv4" THEN A_ip4_text ELSE A_ip6_text]

\* "1: lo@if2: ..." and "2: eth0: ..." with two IPv4 addresses: the table holds
\* eth0 alone, with the first of its addresses
C14_Witness ==
    /\ if_pc = "done"
    /\ Len(if_blocks) = 2
    /\ if_blocks[1].name = N_lo /\ if_blocks[1].peer = P_if2 /\ if_blocks[1].lines = A_lo4 \o A_lo6
    /\ if_blocks[2].name = N_eth0 /\ if_blocks[2].lines = A_ip4 \o A_ip4b
    /\ DOMAIN devices = {N_eth0}
    /\ devices[N_eth0] = [key \in {"ipv4"} |-> A_ip4_text]

-----------------------------------------------------------------------------
(* Properties of the variant resolver, checked under SpecVariant *)

\* C15: in the variant a failed mirror fetch is absorbed: when the fetch from the
\* first URL raises, the second URL is queried and its trimmed response returned if
\* it succeeds; when both fail the result is none; a mirror failure never reaches
\* the caller as an exception.
C15_MirrorFailureAbsorbed ==
    \A p \in Procs :
        LET f == frame[p] IN
        /\ f.pc = "raised" => f.fetched = <<>>
        /\ (f.pc \in {"truncate", "write", "done"} /\ ~f.hit /\ f.mirrors = 2) =>
              \/ Len(f.fetched) = 1 /\ f.fetched[1].ok /\ f.ip = strip(f.fetched[1].raw)
              \/ Len(f.fetched) = 2 /\ ~f.fetched[1].ok /\ f.fetched[2].ok
                    /\ f.ip = strip(f.fetched[2].raw)
              \/ Len(f.fetched) = 2 /\ ~f.fetched[1].ok /\ ~f.fetched[2].ok /\ f.ip = None

-----------------------------------------------------------------------------
(* The age of what the cache answers, checked under Spec *)

\* the entry of the call's protocol is as the call found it
EntryAsFound(f) ==
    /\ cache[f.protocol].exists = f.present
    /\ f.present => now - cache[f.protocol].ctime = f.elapsed
    /\ entryFrom[f.protocol] = f.origin

\* the call went for a fresh resolution
WentFresh(f) == ~f.hit /\ (f.routeReqs = 1 \/ (f.protocol = 6 /\ ~f.ipv6))

\* a hit under a clock that did not go back: the entry is younger than 120
\* seconds and the hit changed nothing of it
HitsAreYoung ==
    \A p \in Procs :
        LET f == frame[p] IN
        (f.pc = "done" /\ f.hit /\ f.elapsed >= 0) =>
            (f.elapsed < 120 /\ EntryAsFound(f) /\ f.ip = CacheValue(cache[f.protocol].content))

\* C16 as stated: no call is answered from an entry captured 120 seconds or more
\* before it, a hit leaves the entry and its capturedAt as they were, and every
\* call made when now - capturedAt >= 120 overwrites the entry with a new
\* timestamp.
C16_StaleAlwaysOverwritten ==
    /\ HitsAreYoung
    /\ \A p \in Procs :
          LET f == frame[p] IN
          (Ended(f) /\ f.present /\ f.elapsed >= 120) =>
              (WentFresh(f) /\ cache[f.protocol].ctime = now)

\* C16 amended: no call is answered from an entry captured 120 seconds or more
\* before it, a hit leaves the entry and its capturedAt as they were, and a call
\* made when now - capturedAt >= 120 (the boundary included) goes for a fresh
\* resolution; it overwrites the entry with its result and a new timestamp, unless
\* the routing-table command fails: then the call ends in that failure and the
\* entry stays as it was.
C16_StaleIsRefreshed ==
    /\ HitsAreYoung
    /\ \A p \in Procs :
          LET f == frame[p] IN
          /\ (Ended(f) /\ f.present /\ f.elapsed >= 120) => WentFresh(f)
          /\ (f.pc = "done" /\ f.present /\ f.elapsed >= 120) =>
                /\ cache[f.protocol].ctime = now
                /\ cache[f.protocol].content = OrEmpty(f.ip)
                /\ entryFrom[f.protocol] \in {"unavailable", "allfailed", "voted"}
          /\ (f.pc = "raised" /\ f.present /\ f.elapsed >= 120) =>
                (f.routes = <<>> /\ f.fetched = <<>> /\ EntryAsFound(f))

\* a call made exactly 120 seconds after the entry was written by a vote went to
\* the mirrors again and wrote the entry anew
C16_Witness ==
    LET f == frame[1] IN
    /\ f.pc = "done" /\ ~f.hit /\ f.present /\ f.elapsed = 120 /\ f.origin = "voted"
    /\ Len(f.fetched) > 0 /\ cache[f.protocol].ctime = now /\ now = 240

-----------------------------------------------------------------------------
(* The failure of the routing-table command, checked under Spec *)

\* the call ran the routing-table command and got no table
CommandFailed(f) == f.routeReqs = 1 /\ f.routes = <<>> /\ f.pc # "routes"

\* C17: when the routing-table command fails during a cache miss, the failure
\* reaches the caller and the cache is left as it was: no entry is created or
\* overwritten and no mirror is queried, so the next call for the protocol finds
\* what the failed call found, not a cached none.
C17_FailureLeavesCache ==
    \A p \in Procs :
        LET f == frame[p] IN
        /\ CommandFailed(f) =>
              /\ f.pc = "raised" /\ ~f.hit
              /\ f.fetched = <<>> /\ f.mirrors = 0
              /\ EntryAsFound(f)
        /\ (prev.valid /\ prev.raised /\ prev.protocol = f.protocol
            /\ f.pc \notin {"idle", "exists"}) =>
              (f.origin = prev.found /\ f.present = (prev.found # "none"))

\* the command failed with no entry there; the next call finds no entry either
\* and resolves afresh
C17_Witness ==
    LET f == frame[1] IN
    /\ prev.valid /\ prev.raised /\ prev.found = "none" /\ prev.protocol = f.protocol
    /\ f.pc = "done" /\ ~f.present /\ ~f.hit /\ f.ip = IP_A

====
